---- MODULE Spec2Model ----
(***************************************************************************)
(* Model of src/src/App.jsx: the chat client's session store (the list of  *)
(* sessions in React state and its copy in localStorage under 'allChats')  *)
(* and the conversation controller (messages, askQuestion and its pending  *)
(* request).                                                               *)
(*                                                                         *)
(* Strings are sequences of one-character strings, so that trim, split,    *)
(* join, toLowerCase, includes, toString and localeCompare are computed.   *)
(*                                                                         *)
(* One action is one task of the browser's event loop: an event handler    *)
(* (or the continuation of askQuestion after its await, or a FileReader's  *)
(* onload), the render that follows its batched state updates, and the     *)
(* effects of that render.  A handler reads the state of the render that   *)
(* created it; reader.onload is created by importChats and runs later, so  *)
(* it reads the chatHistory of the render in which the file was chosen.    *)
(***************************************************************************)
EXTENDS Integers, Sequences, FiniteSets

\* ------------------------------------------------------------- bounds ---
\* Date.now() at the start of a run, and how many times the clock advances.
FirstInstant == 10
MaxTicks == 1
\* Most sessions in the list and asynchronous operations started, taken
\* together: createNewSession, askQuestion and importChats are explored while
\* they keep within it.
MaxLoad == 4
\* Most asynchronous operations started in a run: requests sent by askQuestion
\* and files handed to a FileReader by importChats, taken together.
MaxAsync == 2
\* Most tasks the event loop runs between reader.readAsText and the load
\* event of the reader, while a reader is outstanding.
MaxTasksDuringRead == 1

\* ------------------------------------------------------------ strings ---
\* null.  The code tests currentSessionId only for truthiness and for equality
\* with the id of a session, and the empty string is as falsy as null.
Null == <<>>

NewChat == <<"N", "e", "w", " ", "C", "h", "a", "t">>
NoResponse == <<"N", "o", " ", "r", "e", "s", "p", "o", "n", "s", "e">>
FetchErrorText ==
    <<"E", "r", "r", "o", "r", ":", " ", "C", "o", "u", "l", "d", " ", "n",
     "o", "t", " ", "f", "e", "t", "c", "h", " ", "r", "e", "s", "p", "o", "n", "s", "e", ".">>
SP == " "

\* String.prototype.trim over the model's one whitespace character.
RECURSIVE TrimStart(_)
TrimStart(s) ==
    IF s # <<>> /\ Head(s) = SP THEN TrimStart(Tail(s)) ELSE s

RECURSIVE TrimEnd(_)
TrimEnd(s) ==
    IF s # <<>> /\ s[Len(s)] = SP THEN TrimEnd(SubSeq(s, 1, Len(s) - 1)) ELSE s

Trim(s) == TrimEnd(TrimStart(s))

\* s starts with d at position i (1-based).
StartsAt(s, d, i) ==
    /\ i + Len(d) - 1 <= Len(s)
    /\ SubSeq(s, i, i + Len(d) - 1) = d

\* String.prototype.split(d) for a non-empty delimiter d: the pieces between
\* the non-overlapping occurrences of d, found left to right.
RECURSIVE SplitFrom(_, _, _, _)
SplitFrom(s, d, i, piece) ==
    IF i > Len(s) THEN <<piece>>
    ELSE IF StartsAt(s, d, i) THEN <<piece>> \o SplitFrom(s, d, i + Len(d), <<>>)
    ELSE SplitFrom(s, d, i + 1, Append(piece, s[i]))

Split(s, d) == SplitFrom(s, d, 1, <<>>)

\* Array.prototype.join(sep).
RECURSIVE Join(_, _)
Join(parts, sep) ==
    IF parts = <<>> THEN <<>>
    ELSE IF Len(parts) = 1 THEN parts[1]
    ELSE parts[1] \o sep \o Join(Tail(parts), sep)

\* Array.prototype.slice(0, n).
SliceTo(xs, n) == SubSeq(xs, 1, IF Len(xs) < n THEN Len(xs) ELSE n)

\* String.prototype.toLowerCase over the model's alphabet.
LowerChar(c) ==
    CASE c = "N" -> "n"
      [] c = "C" -> "c"
      [] c = "E" -> "e"
      [] c = "X" -> "x"
      [] OTHER -> c

ToLowerCase(s) == [i \in DOMAIN s |-> LowerChar(s[i])]

\* String.prototype.includes.
Includes(s, t) == \E i \in 1..(Len(s) + 1) : StartsAt(s, t, i)

\* Number.prototype.toString for a natural number: its decimal digits.
DigitChar(d) == <<"0", "1", "2", "3", "4", "5", "6", "7", "8", "9">>[d + 1]

RECURSIVE ToString(_)
ToString(n) ==
    IF n < 10 THEN <<DigitChar(n)>> ELSE Append(ToString(n \div 10), DigitChar(n % 10))

\* The collation rank of a digit character.
CharRank(c) == CHOOSE d \in 0..9 : DigitChar(d) = c

\* String.prototype.localeCompare on digit strings: -1, 0 or 1 as a sorts
\* before, with or after b (character by character, a proper prefix first).
RECURSIVE LocaleCompare(_, _)
LocaleCompare(a, b) ==
    IF a = <<>> /\ b = <<>> THEN 0
    ELSE IF a = <<>> THEN -1
    ELSE IF b = <<>> THEN 1
    ELSE IF CharRank(Head(a)) < CharRank(Head(b)) THEN -1
    ELSE IF CharRank(Head(a)) > CharRank(Head(b)) THEN 1
    ELSE LocaleCompare(Tail(a), Tail(b))

\* ----------------------------------------------------------- sessions ---
\* A session object { id, name, pinned, messages } (App.jsx line 48).
Session(id, name, pinned, msgs) ==
    [id |-> id, name |-> name, pinned |-> pinned, messages |-> msgs]

\* A message object { sender, text, timestamp }.  text is a string for a user
\* message and an array of strings for a bot message: isArray tells which of
\* text and lines carries it.  req is the number of the send that produced
\* the message (0 for a message read from a file); it is bookkeeping of the
\* model, there to relate a reply to its prompt.  The timestamp is left out:
\* nothing but formatTimestamp, for display, reads it.
UserMessage(q, r) ==
    [sender |-> "user", isArray |-> FALSE, text |-> q, lines |-> <<>>, req |-> r]

BotMessage(ls, r) ==
    [sender |-> "bot", isArray |-> TRUE, text |-> <<>>, lines |-> ls, req |-> r]

\* chatHistory.find(chat => chat.id === id): the index of the first session
\* with that id, 0 when there is none.
FindIndex(hist, id) ==
    IF \E i \in DOMAIN hist : hist[i].id = id
    THEN CHOOSE i \in DOMAIN hist :
             /\ hist[i].id = id
             /\ \A j \in 1..(i - 1) : hist[j].id # id
    ELSE 0

\* The body of the effect on [messages] (lines 33-35): every session with the
\* current id gets the displayed message list.
SaveEffect(hist, cur, msgs) ==
    [i \in DOMAIN hist |->
        IF hist[i].id = cur THEN [hist[i] EXCEPT !.messages = msgs] ELSE hist[i]]

\* The comparator of togglePinChat and importChats (lines 147-150, 213-216):
\* pinned first, then b.id.localeCompare(a.id).
BoolNum(b) == IF b THEN 1 ELSE 0

ComparePinnedOldestFirst(a, b) ==
    IF a.pinned = b.pinned THEN LocaleCompare(a.id, b.id)
    ELSE BoolNum(b.pinned) - BoolNum(a.pinned)

ComparePinned(a, b) ==
    IF a.pinned = b.pinned THEN LocaleCompare(b.id, a.id)
    ELSE BoolNum(b.pinned) - BoolNum(a.pinned)

\* Array.prototype.sort with that comparator: a stable sort, here by
\* insertion (an element goes after every element that does not sort after it).
RECURSIVE InsertChat(_, _)
InsertChat(sorted, x) ==
    IF sorted = <<>> THEN <<x>>
    ELSE IF ComparePinned(Head(sorted), x) > 0 THEN <<x>> \o sorted
    ELSE <<Head(sorted)>> \o InsertChat(Tail(sorted), x)

RECURSIVE SortChats(_)
SortChats(list) ==
    IF list = <<>> THEN <<>>
    ELSE InsertChat(SortChats(SubSeq(list, 1, Len(list) - 1)), list[Len(list)])

\* The merge of importChats (lines 205-210): an imported session is pushed
\* unless merged already has a session with its id.
RECURSIVE MergeImported(_, _)
MergeImported(merged, imported) ==
    IF imported = <<>> THEN merged
    ELSE IF FindIndex(merged, Head(imported).id) # 0
         THEN MergeImported(merged, Tail(imported))
         ELSE MergeImported(Append(merged, Head(imported)), Tail(imported))

\* chatHistory.filter(chat => chat.id !== id) of deleteSession (line 71);
\* SelectSeq is Array.prototype.filter.
RemoveChat(hist, id) == SelectSeq(hist, LAMBDA chat : chat.id # id)

\* The map of togglePinChat (lines 143-145).
FlipPin(hist, id) ==
    [i \in DOMAIN hist |->
        IF hist[i].id = id THEN [hist[i] EXCEPT !.pinned = ~hist[i].pinned]
        ELSE hist[i]]

\* The map of saveRename and of askQuestion (lines 164-166, 102-104).
SetName(hist, id, name) ==
    [i \in DOMAIN hist |->
        IF hist[i].id = id THEN [hist[i] EXCEPT !.name = name] ELSE hist[i]]

\* question.trim().split(' ').slice(0, 6).join(' ') (line 101).
ShortNameWords == 6

ShortName(q) == Join(SliceTo(Split(Trim(q), <<SP>>), ShortNameWords), <<SP>>)

\* rawReply.split("* ").map(trim).filter(non-empty) (lines 126-129).
BotLinesIfDelimited(rawReply) ==
    IF Includes(rawReply, <<"*", SP>>)
    THEN SelectSeq([i \in DOMAIN Split(rawReply, <<"*", SP>>) |->
                       Trim(Split(rawReply, <<"*", SP>>)[i])],
                   LAMBDA line : Len(line) > 0)
    ELSE <<rawReply>>

BotLines(rawReply) ==
    LET parts == Split(rawReply, <<"*", SP>>)
        trimmed == [i \in DOMAIN parts |-> Trim(parts[i])]
    IN  SelectSeq(trimmed, LAMBDA line : Len(line) > 0)

\* !question.trim() and !renameText.trim() (lines 93, 163).
IsBlankIfEmpty(text) == text = <<>>

IsBlank(text) == Trim(text) = <<>>

\* The session deleteSession makes current when the current one is deleted,
\* and the message list it shows (lines 75-81).
FallbackLast(updatedChats) ==
    IF Len(updatedChats) > 0
    THEN [id |-> updatedChats[Len(updatedChats)].id,
          messages |-> updatedChats[Len(updatedChats)].messages]
    ELSE [id |-> Null, messages |-> <<>>]

Fallback(updatedChats) ==
    IF Len(updatedChats) > 0
    THEN [id |-> updatedChats[1].id, messages |-> updatedChats[1].messages]
    ELSE [id |-> Null, messages |-> <<>>]

\* filteredChats (lines 229-231).
FilterChats(hist, term) ==
    SelectSeq(hist, LAMBDA chat : Includes(ToLowerCase(chat.name), ToLowerCase(term)))

\* ------------------------------------------------------------- inputs ---
\* The contents of the three text fields (question, renameText, searchTerm)
\* are what the user typed when a handler reads them: they are inputs of the
\* handlers, drawn from the sets below.  (askQuestion ends with
\* setQuestion(''), which empties the question field: the next send then
\* reads what the user typed since, possibly nothing.)
SevenWords ==
    <<"a", " ", "b", " ", "c", " ", "d", " ", "e", " ", "f", " ", "g">>

Questions == {<<SP>>, SevenWords}

RenameTexts == {<<SP>>, <<SP, "x", SP>>}

\* How a request ends: fetch or response.json() rejects; the body lacks
\* candidates[0].content.parts[0].text; or it carries a reply text.
Rejected == [ok |-> FALSE, hasText |-> FALSE, text |-> <<>>]
NoPath == [ok |-> TRUE, hasText |-> FALSE, text |-> <<>>]
Reply(t) == [ok |-> TRUE, hasText |-> TRUE, text |-> t]

Responses == {Rejected, Reply(<<"*", SP, "p", "*", SP, "q", SP>>)}

\* The files the user picks for import: text that is not JSON, JSON that is
\* not an array, and arrays of sessions.  One session carries an id shorter
\* than a clock reading, the other the id of a session created at FirstInstant.
Garbage == [parses |-> FALSE, isArray |-> FALSE, items |-> <<>>]
NotArray == [parses |-> TRUE, isArray |-> FALSE, items |-> <<>>]
ArrayOf(items) == [parses |-> TRUE, isArray |-> TRUE, items |-> items]

FileChatA == Session(<<"9">>, <<"x">>, TRUE, <<>>)
FileChatB ==
    Session(ToString(FirstInstant), NewChat, FALSE, <<UserMessage(<<"y">>, 0)>>)

Files ==
    {Garbage, NotArray, ArrayOf(<<FileChatA>>),
     ArrayOf(<<FileChatB, FileChatA, FileChatB>>)}

\* -------------------------------------------------------------- state ---
VARIABLES
    now,               \* Date.now()
    storage,           \* JSON.parse(localStorage.getItem('allChats')) || []
    chatHistory,       \* useState([]), line 8
    messages,          \* useState([]), line 7
    currentSessionId,  \* useState(null), line 9
    isTyping,          \* useState(false), line 10
    requests,          \* the sends whose fetch has not resolved yet: the number
                       \* of the send and the session current when it was made
    sent,              \* how many sends were issued
    picked,            \* how many files were handed to a FileReader
    readers,           \* the FileReaders whose load event has not fired yet
    tasksDuringRead,   \* tasks run since a reader has been outstanding
    lastOp             \* the task that ran last, and what it met

vars ==
    <<now, storage, chatHistory, messages, currentSessionId, isTyping, requests,
      sent, picked, readers, tasksDuringRead, lastOp>>

asyncVars == <<requests, sent, picked, readers>>
storeVars == <<storage, chatHistory, messages, currentSessionId>>

\* lastOp names the handler that ran last, the branch it took and the text it
\* read: for askQuestion and saveRename the text the field held, for the
\* continuation of askQuestion the reply text of the response.
Op(name, note) == [op |-> name, note |-> note, text |-> <<>>]
OpOn(name, note, text) == [op |-> name, note |-> note, text |-> text]

\* The render after a task and its effect on [messages] (lines 31-38).  The
\* task left chatHistory = hist, currentSessionId = cur, messages = msgs and
\* 'allChats' = stored; msgsSet tells whether it called setMessages.  The
\* effect runs when messages changed and returns at once when no session is
\* current; it writes localStorage and chatHistory.
\* (setMessages with the array a session already holds does not re-render,
\* and the effect does not run; it would write what is there already, as
\* sessions with the same id carry the same messages: see SameIdSameMessages.)
Render(hist, cur, msgs, stored, msgsSet) ==
    /\ messages' = msgs
    /\ currentSessionId' = cur
    /\ IF msgsSet /\ cur # Null
       THEN /\ chatHistory' = SaveEffect(hist, cur, msgs)
            /\ storage' = SaveEffect(hist, cur, msgs)
       ELSE /\ chatHistory' = hist
            /\ storage' = stored

Init ==
    /\ now = FirstInstant
    /\ storage = <<>>
    /\ chatHistory = <<>>
    /\ messages = <<>>
    /\ currentSessionId = Null
    /\ isTyping = FALSE
    /\ requests = {}
    /\ sent = 0
    /\ picked = 0
    /\ readers = <<>>
    /\ tasksDuringRead = 0
    /\ lastOp = Op("mount", "empty")

\* ------------------------------------------------------------ actions ---
\* Every task but a load event counts as one run while a reader is outstanding.
CountTask ==
    /\ readers # <<>> => tasksDuringRead < MaxTasksDuringRead
    /\ tasksDuringRead' =
           IF readers = <<>> \/ readers' = <<>> THEN 0 ELSE tasksDuringRead + 1

\* Time passes.
Tick ==
    /\ now < FirstInstant + MaxTicks
    /\ now' = now + 1
    /\ lastOp' = Op("tick", "")
    /\ UNCHANGED <<storeVars, isTyping, asyncVars>>
    /\ CountTask

\* The page is loaded again: state is constructed anew and the mount effect
\* (lines 18-28) reads the store; the requests and readers of the old page
\* are gone.
Mount ==
    /\ lastOp.op # "mount"
    /\ LET stored == storage
       IN  IF Len(stored) > 0
           THEN Render(stored, stored[1].id, stored[1].messages, storage, TRUE)
           ELSE Render(stored, Null, <<>>, storage, FALSE)
    /\ isTyping' = FALSE
    /\ requests' = {}
    /\ readers' = <<>>
    /\ lastOp' = Op("mount", IF Len(storage) > 0 THEN "stored" ELSE "empty")
    /\ UNCHANGED <<now, sent, picked>>
    /\ CountTask

\* createNewSession (lines 46-55).
createNewSession ==
    /\ Len(chatHistory) + sent + picked < MaxLoad
    /\ LET newId == ToString(now)
           newSession == Session(newId, NewChat, FALSE, <<>>)
           updatedHistory == <<newSession>> \o chatHistory
       IN  /\ Render(updatedHistory, newId, <<>>, updatedHistory, TRUE)
           /\ lastOp' = Op("create", "")
    /\ UNCHANGED <<now, isTyping, asyncVars>>
    /\ CountTask

\* loadSession (lines 58-67).
loadSession(id) ==
    /\ LET k == FindIndex(chatHistory, id)
       IN  IF k # 0
           THEN Render(chatHistory, id, chatHistory[k].messages, storage, TRUE)
           ELSE UNCHANGED storeVars
    /\ lastOp' = Op("load", "")
    /\ UNCHANGED <<now, isTyping, asyncVars>>
    /\ CountTask

\* deleteSession without its localStorage.setItem (line 72).
deleteSessionUnsaved(id) ==
    /\ LET updatedChats == RemoveChat(chatHistory, id)
           next == Fallback(updatedChats)
       IN  IF id = currentSessionId
           THEN Render(updatedChats, next.id, next.messages, storage, TRUE)
           ELSE Render(updatedChats, currentSessionId, messages, storage, FALSE)
    /\ lastOp' = Op("delete", IF id = currentSessionId THEN "active" ELSE "other")
    /\ UNCHANGED <<now, isTyping, asyncVars>>
    /\ CountTask

\* deleteSession (lines 70-83).
deleteSession(id) ==
    /\ LET updatedChats == RemoveChat(chatHistory, id)
           next == Fallback(updatedChats)
       IN  IF id = currentSessionId
           THEN Render(updatedChats, next.id, next.messages, updatedChats, TRUE)
           ELSE Render(updatedChats, currentSessionId, messages, updatedChats, FALSE)
    /\ lastOp' = Op("delete", IF id = currentSessionId THEN "active" ELSE "other")
    /\ UNCHANGED <<now, isTyping, asyncVars>>
    /\ CountTask

\* refreshChat (lines 86-89); its button is there while a session is current.
refreshChat ==
    /\ currentSessionId # Null
    /\ Render(chatHistory, currentSessionId, <<>>, storage, TRUE)
    /\ lastOp' = Op("clear", "")
    /\ UNCHANGED <<now, isTyping, asyncVars>>
    /\ CountTask

\* askQuestion up to its await (lines 92-120), with the question field
\* holding question.
askQuestion(question) ==
    /\ IF IsBlank(question)
       THEN /\ lastOp' = OpOn("send", "empty", question)
            /\ UNCHANGED <<now, storeVars, isTyping, asyncVars>>
       ELSE /\ sent + picked < MaxAsync
            /\ Len(chatHistory) + sent + picked < MaxLoad
            /\ LET userMessage == UserMessage(question, sent + 1)
                   k == FindIndex(chatHistory, currentSessionId)
                   rename == k # 0 /\ chatHistory[k].name \in {<<>>, NewChat}
                   updatedChats ==
                       SetName(chatHistory, currentSessionId, ShortName(question))
               IN  Render(IF rename THEN updatedChats ELSE chatHistory,
                          currentSessionId,
                          Append(messages, userMessage),
                          IF rename THEN updatedChats ELSE storage,
                          TRUE)
            /\ isTyping' = TRUE
            /\ sent' = sent + 1
            /\ requests' =
                   requests \union {[n |-> sent + 1, from |-> currentSessionId]}
            /\ lastOp' = OpOn("send", "sent", question)
            /\ UNCHANGED <<now, picked, readers>>
    /\ CountTask

\* The text of the bot message for a response (lines 122-134).
ReplyLinesUncaught(resp) ==
    BotLines(IF resp.hasText /\ resp.text # <<>> THEN resp.text ELSE NoResponse)

ReplyLines(resp) ==
    IF ~resp.ok THEN <<FetchErrorText>>
    ELSE BotLines(IF resp.hasText /\ resp.text # <<>> THEN resp.text ELSE NoResponse)

\* askQuestion from its await on, appending to the message list of the render
\* it was called in (and the user message) instead of the list at hand:
\* setMessages([...messages, userMessage, bot]).
askQuestionResumeStale(r, resp) ==
    /\ r \in requests
    /\ LET at == {i \in DOMAIN messages : messages[i].req = r.n}
           upTo == IF at = {} THEN Len(messages)
                   ELSE CHOOSE i \in at : \A j \in at : i <= j
       IN  Render(chatHistory, currentSessionId,
                  Append(SubSeq(messages, 1, upTo), BotMessage(ReplyLines(resp), r.n)),
                  storage, TRUE)
    /\ isTyping' = FALSE
    /\ requests' = requests \ {r}
    /\ lastOp' = IF resp.ok THEN OpOn("reply", "ok", resp.text)
                  ELSE Op("reply", "failed")
    /\ UNCHANGED <<now, sent, picked, readers>>
    /\ CountTask

\* askQuestion from its await on (lines 121-138): request r ends with resp.
askQuestionResume(r, resp) ==
    /\ r \in requests
    /\ Render(chatHistory, currentSessionId,
              Append(messages, BotMessage(ReplyLines(resp), r.n)), storage, TRUE)
    /\ isTyping' = FALSE
    /\ requests' = requests \ {r}
    /\ lastOp' = IF resp.ok THEN OpOn("reply", "ok", resp.text)
                  ELSE Op("reply", "failed")
    /\ UNCHANGED <<now, sent, picked, readers>>
    /\ CountTask

\* togglePinChat (lines 142-153).
togglePinChat(id) ==
    /\ LET updatedChats == SortChats(FlipPin(chatHistory, id))
       IN  Render(updatedChats, currentSessionId, messages, updatedChats, FALSE)
    /\ lastOp' = Op("togglePin", "")
    /\ UNCHANGED <<now, isTyping, asyncVars>>
    /\ CountTask

\* saveRename (lines 162-170) for the session being renamed, with the rename
\* field holding renameText.  (startRenaming and the Escape key only open and
\* close that field: editingChatId is read by the view alone.)
saveRename(id, renameText) ==
    /\ IF IsBlank(renameText)
       THEN /\ lastOp' = OpOn("rename", "empty", renameText)
            /\ UNCHANGED storeVars
       ELSE /\ LET updatedChats == SetName(chatHistory, id, Trim(renameText))
               IN  Render(updatedChats, currentSessionId, messages, updatedChats, FALSE)
            /\ lastOp' = OpOn("rename", "saved", renameText)
    /\ UNCHANGED <<now, isTyping, asyncVars>>
    /\ CountTask

\* The list reader.onload stores for a well-formed file (lines 205-216).
ImportResult(hist, imported) == SortChats(MergeImported(hist, imported))

\* importChats up to reader.readAsText (lines 194-198, 225): the reader's
\* onload closes over the chatHistory of this render.  (The model explores
\* the files whose merge keeps within MaxLoad.)
importChats(file) ==
    /\ sent + picked < MaxAsync
    /\ Len(chatHistory) + sent + picked < MaxLoad
    /\ file.isArray => Len(ImportResult(chatHistory, file.items)) + sent + picked < MaxLoad
    /\ readers' = Append(readers, [chatHistory |-> chatHistory, file |-> file])
    /\ picked' = picked + 1
    /\ lastOp' = Op("import", "")
    /\ UNCHANGED <<now, storeVars, isTyping, requests, sent>>
    /\ CountTask

\* What the try block of reader.onload comes to (lines 200-202, 221-223):
\* "merged", or the message of the error it throws, which alert shows after
\* "Failed to import chats: ".
LoadOutcomeUnchecked(file) ==
    IF ~file.parses THEN "SyntaxError" ELSE "merged"

LoadOutcome(file) ==
    IF ~file.parses THEN "SyntaxError"
    ELSE IF ~file.isArray THEN "Invalid format"
    ELSE "merged"

\* reader.onload (lines 199-224) of the k-th outstanding reader.
readerOnload(k) ==
    /\ k \in DOMAIN readers
    /\ LET reader == readers[k]
           merged == ImportResult(reader.chatHistory, reader.file.items)
       IN  IF LoadOutcome(reader.file) = "merged"
           THEN /\ Render(merged, currentSessionId, messages, merged, FALSE)
                /\ lastOp' = Op("onload", "merged")
           ELSE /\ lastOp' = Op("onload", LoadOutcome(reader.file))
                /\ UNCHANGED storeVars
    /\ readers' = [i \in 1..(Len(readers) - 1) |->
                      IF i < k THEN readers[i] ELSE readers[i + 1]]
    /\ tasksDuringRead' = IF readers' = <<>> THEN 0 ELSE tasksDuringRead
    /\ UNCHANGED <<now, isTyping, requests, sent, picked>>

Next ==
    \/ Tick
    \/ Mount
    \/ createNewSession
    \/ \E i \in DOMAIN chatHistory : loadSession(chatHistory[i].id)
    \/ \E i \in DOMAIN chatHistory : deleteSession(chatHistory[i].id)
    \/ refreshChat
    \/ \E q \in Questions : askQuestion(q)
    \/ \E r \in requests, resp \in Responses : askQuestionResume(r, resp)
    \/ \E i \in DOMAIN chatHistory : togglePinChat(chatHistory[i].id)
    \/ \E i \in DOMAIN chatHistory, t \in RenameTexts : saveRename(chatHistory[i].id, t)
    \/ \E file \in Files : importChats(file)
    \/ \E k \in DOMAIN readers : readerOnload(k)

Spec == Init /\ [][Next]_vars

\* ------------------------------------------------- the text functions ---
\* The same handlers over more texts: what askQuestion makes of a question
\* (trim, the short name) and of a reply (the bot lines) is explored for the
\* questions and replies below, on sessions that were created and on a
\* session read from a file that has the empty name.
SixWords == SubSeq(SevenWords, 1, 11)
DoubleSpaced ==
    <<"a", SP, SP, "b", SP, "c", SP, "d", SP, "e", SP, "f">>

Texts == {<<SP>>, <<SP, "a", SP>>, SixWords, SevenWords, DoubleSpaced}

\* Reply texts: empty, blank, without the delimiter "* ", the delimiter
\* alone, an asterisk without its space, and texts with several delimiters.
ReplyTexts ==
    {<<>>,
     <<SP>>,
     <<"p">>,
     <<SP, "p", SP>>,
     <<"*", SP>>,
     <<"p", SP, "*", "p">>,
     <<"*", SP, "p", "*", SP, "q", SP>>,
     <<"p", "*", SP, "*", SP, SP>>}

Replies ==
    {Rejected, NoPath} \union {Reply(t) : t \in ReplyTexts}

FileChatC == Session(<<"8">>, <<>>, FALSE, <<>>)

NextText ==
    \/ Tick
    \/ createNewSession
    \/ importChats(ArrayOf(<<FileChatC>>))
    \/ \E k \in DOMAIN readers : readerOnload(k)
    \/ \E i \in DOMAIN chatHistory : loadSession(chatHistory[i].id)
    \/ \E q \in Texts : askQuestion(q)
    \/ \E r \in requests, resp \in Replies : askQuestionResume(r, resp)

SpecText == Init /\ [][NextText]_vars

\* ------------------------------------------------------------- lemmas ---
\* Sessions with the same id carry the same messages, in the list and in the
\* list a reader closed over (what Render relies on).
SameIdSameMessages ==
    \A i, j \in DOMAIN chatHistory :
        chatHistory[i].id = chatHistory[j].id
            => chatHistory[i].messages = chatHistory[j].messages

\* ------------------------------------------------------------- claims ---
IsPrefix(a, b) == Len(a) <= Len(b) /\ SubSeq(b, 1, Len(a)) = a

Ids(list) == {list[i].id : i \in DOMAIN list}

Occurrences(list, x) == Cardinality({i \in DOMAIN list : list[i] = x})

\* b holds the elements of a, each as often, in some order.
IsPermutation(a, b) ==
    /\ Len(a) = Len(b)
    /\ \A i \in DOMAIN a : Occurrences(a, a[i]) = Occurrences(b, a[i])

WithoutIndex(list, k) ==
    [i \in 1..(Len(list) - 1) |-> IF i < k THEN list[i] ELSE list[i + 1]]

WhitespaceOnly(text) == \A i \in DOMAIN text : text[i] = SP

\* C1: after a create or a delete, whatever came before it, the session list
\* persisted under 'allChats' equals the in-memory session list.
C1_CreateDeletePersisted ==
    lastOp.op \in {"create", "delete"} => storage = chatHistory

\* A delete that left sessions behind, after the creates that made them.
C1_Witness ==
    /\ lastOp.op = "delete"
    /\ Len(chatHistory) >= 2
    /\ storage = chatHistory

\* C2: in every reachable state the persisted session list equals the
\* in-memory one, and the persisted messages of the active session equal the
\* message list on display.
C2_EverythingPersisted ==
    /\ storage = chatHistory
    /\ currentSessionId # Null =>
           \A i \in DOMAIN storage :
               storage[i].id = currentSessionId => storage[i].messages = messages

\* C3: no two sessions of the list have the same id.
C3_UniqueIds ==
    \A i, j \in DOMAIN chatHistory :
        i # j => chatHistory[i].id # chatHistory[j].id

\* C4: every step leaves the message list of every session that stays in the
\* store a prefix of its message list after the step.
C4_AppendOnly ==
    [][\A i \in DOMAIN chatHistory, j \in DOMAIN chatHistory' :
           chatHistory[i].id = chatHistory'[j].id
               => IsPrefix(chatHistory[i].messages, chatHistory'[j].messages)]_vars

\* C5: the load of a well-formed file keeps every session of the list as it
\* is, adds each incoming id that is new exactly once, and so makes the list
\* longer by the number of distinct new ids.
C5_ImportMergesById ==
    [][lastOp'.op = "onload" /\ lastOp'.note = "merged" =>
           \E k \in DOMAIN readers :
               LET items == readers[k].file.items
                   newIds == Ids(items) \ Ids(chatHistory)
               IN  /\ readers' = WithoutIndex(readers, k)
                   /\ \A i \in DOMAIN chatHistory :
                          Occurrences(chatHistory', chatHistory[i])
                              = Occurrences(chatHistory, chatHistory[i])
                   /\ \A id \in newIds :
                          /\ Cardinality({j \in DOMAIN chatHistory' :
                                             chatHistory'[j].id = id}) = 1
                          /\ \E j \in DOMAIN chatHistory', m \in DOMAIN items :
                                 chatHistory'[j] = items[m] /\ items[m].id = id
                   /\ Len(chatHistory') = Len(chatHistory) + Cardinality(newIds)
                   /\ storage' = chatHistory']_vars

\* C6: the load of a file that is not JSON, or whose JSON is not an array,
\* alerts the error and leaves the list, the store, the active session and
\* the message list as they were.
C6_MalformedImportIgnored ==
    [][\A k \in DOMAIN readers :
           (/\ lastOp'.op = "onload"
            /\ readers' = WithoutIndex(readers, k)
            /\ ~(readers[k].file.parses /\ readers[k].file.isArray))
           => /\ lastOp'.note =
                     IF readers[k].file.parses THEN "Invalid format" ELSE "SyntaxError"
              /\ UNCHANGED <<storage, chatHistory, currentSessionId, messages>>]_vars

\* The load of such a file met sessions in the list.
C6_Witness ==
    /\ lastOp.op = "onload"
    /\ lastOp.note = "Invalid format"
    /\ chatHistory # <<>>
    /\ currentSessionId # Null

\* Pinned sessions first and, among sessions pinned alike, ids descending (in
\* the order of localeCompare).
PinnedFirstNewestFirst(list) ==
    \A i, j \in DOMAIN list :
        i < j =>
            /\ list[j].pinned => list[i].pinned
            /\ list[i].pinned = list[j].pinned
                   => LocaleCompare(list[i].id, list[j].id) >= 0

\* C7: togglePin(id) flips the pinned flag of the sessions with that id and
\* of no other, and leaves the whole list, as the empty search term shows
\* it, with pinned sessions first and ids descending among sessions pinned
\* alike.
C7_TogglePinSorts ==
    [][lastOp'.op = "togglePin" =>
           \E id \in Ids(chatHistory) :
               LET flipped ==
                       [i \in DOMAIN chatHistory |->
                           IF chatHistory[i].id = id
                           THEN [chatHistory[i] EXCEPT !.pinned = ~chatHistory[i].pinned]
                           ELSE chatHistory[i]]
                   shown == FilterChats(chatHistory', <<>>)
               IN  /\ IsPermutation(flipped, shown)
                   /\ PinnedFirstNewestFirst(shown)]_vars

\* A togglePin left a pinned session ahead of two unpinned ones with
\* different ids.
C7_Witness ==
    /\ lastOp.op = "togglePin"
    /\ Len(chatHistory) >= 3
    /\ chatHistory[1].pinned
    /\ ~chatHistory[2].pinned
    /\ ~chatHistory[3].pinned
    /\ chatHistory[2].id # chatHistory[3].id

\* C8: deleteSession(id) removes the sessions with that id; when id is the
\* active session, the first remaining session becomes active and its
\* messages the message list, or nothing is active and the message list is
\* empty when none remains; otherwise the active session and the message
\* list stay.
C8_DeleteFallback ==
    [][lastOp'.op = "delete" =>
           \E id \in Ids(chatHistory) :
               LET remaining == SelectSeq(chatHistory, LAMBDA chat : chat.id # id)
               IN  /\ chatHistory' = remaining
                   /\ IF id = currentSessionId
                      THEN IF remaining # <<>>
                           THEN /\ currentSessionId' = remaining[1].id
                                /\ messages' = remaining[1].messages
                           ELSE /\ currentSessionId' = Null
                                /\ messages' = <<>>
                      ELSE /\ currentSessionId' = currentSessionId
                           /\ messages' = messages]_vars

\* The active session was deleted and two sessions with different messages
\* remained.
C8_Witness ==
    /\ lastOp = Op("delete", "active")
    /\ Len(chatHistory) >= 2
    /\ chatHistory[1].messages # chatHistory[2].messages
    /\ currentSessionId = chatHistory[1].id
    /\ messages = chatHistory[1].messages
    /\ messages # <<>>

\* C9: a saveRename or an askQuestion whose text is empty or only whitespace
\* changes no session, no message, no request, not the controller state and
\* not the store.
C9_BlankInputIgnored ==
    [][lastOp'.op \in {"send", "rename"} /\ WhitespaceOnly(lastOp'.text) =>
           UNCHANGED <<storage, chatHistory, messages, currentSessionId, isTyping,
                       requests, sent>>]_vars

\* A blank question was sent with a session active and no request outstanding.
C9_Witness ==
    /\ lastOp = OpOn("send", "empty", <<SP>>)
    /\ currentSessionId # Null
    /\ chatHistory # <<>>
    /\ ~isTyping

\* C10: a non-empty send appends its user message and sets isTyping while its
\* request is outstanding, and in the message list every bot message comes
\* after the user message of the send that produced it.
SendAppendsUserMessage ==
    lastOp'.op = "send" /\ ~WhitespaceOnly(lastOp'.text) =>
        /\ Len(messages') = Len(messages) + 1
        /\ messages'[Len(messages')].sender = "user"
        /\ messages'[Len(messages')].text = lastOp'.text
        /\ \E r \in requests' : r.n = messages'[Len(messages')].req
        /\ isTyping'

PromptBeforeReply(list) ==
    \A j \in DOMAIN list :
        list[j].sender = "bot" /\ list[j].req > 0 =>
            \E i \in 1..(j - 1) :
                list[i].sender = "user" /\ list[i].req = list[j].req

C10_UserBeforeBot ==
    [][SendAppendsUserMessage /\ PromptBeforeReply(messages')]_vars

\* ------------------------------------------------- what holds instead ---
\* While no file was handed to a FileReader, C2 holds.
PersistedWhileNothingImported ==
    picked = 0 => C2_EverythingPersisted

\* C10 without its conclusion, and the order of a prompt and its reply when
\* the message list holds both.
SendAppendsBeforeReply ==
    [][/\ SendAppendsUserMessage
       /\ \A i, j \in DOMAIN messages' :
              /\ messages'[i].sender = "user"
              /\ messages'[j].sender = "bot"
              /\ messages'[i].req = messages'[j].req
              => i < j]_vars
\* ------------------------------------------------------ replies (C11..) ---
\* The last message of a list.
Last(list) == list[Len(list)]

\* C11: the step in which a request resolves removes that request, issues no
\* new one and appends exactly one bot message, that of the request; when the
\* request failed, the message carries the fixed error text alone and
\* isTyping is false afterwards.
C11_FailureOneErrorMessage ==
    [][lastOp'.op = "reply" =>
           \E r \in requests :
               /\ requests' = requests \ {r}
               /\ sent' = sent
               /\ Len(messages') = Len(messages) + 1
               /\ SubSeq(messages', 1, Len(messages)) = messages
               /\ Last(messages').sender = "bot"
               /\ Last(messages').req = r.n
               /\ lastOp'.note = "failed" =>
                      /\ Last(messages').lines = <<FetchErrorText>>
                      /\ ~isTyping']_vars

\* A request failed and its error message follows its prompt; no request is
\* left.
C11_Witness ==
    /\ lastOp = Op("reply", "failed")
    /\ requests = {}
    /\ Len(messages) >= 2
    /\ Last(messages).lines = <<FetchErrorText>>
    /\ messages[Len(messages) - 1].sender = "user"
    /\ messages[Len(messages) - 1].req = Last(messages).req
\* ------------------------------------------------------- names (C12) ---
CountSpaces(t) == Cardinality({i \in DOMAIN t : t[i] = SP})

\* t up to its sixth space, all of t when it has fewer than six.
UpToSixthSpace(t) ==
    IF CountSpaces(t) < ShortNameWords THEN t
    ELSE LET i == CHOOSE j \in DOMAIN t :
                      t[j] = SP /\ CountSpaces(SubSeq(t, 1, j)) = ShortNameWords
         IN  SubSeq(t, 1, i - 1)

\* The words of t: its maximal runs of characters other than the space.
WordsOf(t) == SelectSeq(Split(t, <<SP>>), LAMBDA w : w # <<>>)

FirstSixWords(t) == Join(SliceTo(WordsOf(t), ShortNameWords), <<SP>>)

\* The names of list are those of old but for the sessions with id cur, which
\* are named name.
Renamed(old, list, cur, name) ==
    /\ Len(list) = Len(old)
    /\ \A i \in DOMAIN old :
           /\ list[i].id = old[i].id
           /\ list[i].name = IF old[i].id = cur THEN name ELSE old[i].name

SameNames(old, list) ==
    /\ Len(list) = Len(old)
    /\ \A i \in DOMAIN old : list[i].id = old[i].id /\ list[i].name = old[i].name

\* C12: a non-empty send on an active session
\* named "New Chat" names it by the first six words of the text, in the list
\* and in the store; a send on a session with any other name changes no name.
C12_RenamesNewChatOnly ==
    [][lastOp'.op = "send" /\ ~WhitespaceOnly(lastOp'.text) =>
           LET k == FindIndex(chatHistory, currentSessionId)
           IN  IF k # 0 /\ chatHistory[k].name = NewChat
               THEN /\ Renamed(chatHistory, chatHistory', currentSessionId,
                               FirstSixWords(lastOp'.text))
                    /\ storage' = chatHistory'
               ELSE SameNames(chatHistory, chatHistory')]_vars

\* What holds instead: a non-empty send on an active session named "New Chat"
\* or named by the empty string names it by the trimmed text up to its sixth
\* space, in the list and in the store; a send on a session with any other
\* name, or with no active session, changes no name.
RenamesUnnamedUpToSixthSpace ==
    [][lastOp'.op = "send" /\ ~WhitespaceOnly(lastOp'.text) =>
           LET k == FindIndex(chatHistory, currentSessionId)
           IN  IF k # 0 /\ chatHistory[k].name \in {NewChat, <<>>}
               THEN /\ Renamed(chatHistory, chatHistory', currentSessionId,
                               UpToSixthSpace(Trim(lastOp'.text)))
                    /\ storage' = chatHistory'
               ELSE SameNames(chatHistory, chatHistory')]_vars

\* ---------------------------------------------------- bot lines (C13) ---
Delimiter == <<"*", SP>>

\* The segments of s between the occurrences of the delimiter, leftmost
\* occurrence first.
RECURSIVE Segments(_)
Segments(s) ==
    IF \A i \in DOMAIN s : ~StartsAt(s, Delimiter, i) THEN <<s>>
    ELSE LET i == CHOOSE j \in DOMAIN s :
                      /\ StartsAt(s, Delimiter, j)
                      /\ \A h \in 1..(j - 1) : ~StartsAt(s, Delimiter, h)
         IN  <<SubSeq(s, 1, i - 1)>>
                 \o Segments(SubSeq(s, i + Len(Delimiter), Len(s)))

\* s from its first to its last character that is not a space.
Stripped(s) ==
    LET solid == {i \in DOMAIN s : s[i] # SP}
    IN  IF solid = {} THEN <<>>
        ELSE SubSeq(s, CHOOSE i \in solid : \A j \in solid : i <= j,
                       CHOOSE i \in solid : \A j \in solid : j <= i)

SegmentLines(s) ==
    SelectSeq([i \in DOMAIN Segments(s) |-> Stripped(Segments(s)[i])],
              LAMBDA line : line # <<>>)

\* The reply a response came with: its text, "No response" when it has none.
RawReplyOf(text) == IF text = <<>> THEN NoResponse ELSE text

IsTrimmedLine(line) ==
    line # <<>> /\ Head(line) # SP /\ Last(line) # SP

\* lines is what a bot message built from reply raw carries: the segments of
\* raw, stripped, but for the empty ones, each of them non-empty and trimmed.
SplitTrimmedNonEmpty(raw, lines) ==
    /\ lines = SegmentLines(raw)
    /\ \A i \in DOMAIN lines : IsTrimmedLine(lines[i])

\* C13: the bot message built from a reply carries the segments of the reply
\* between the delimiters "* ", trimmed, without the empty ones, each
\* non-empty and trimmed; a reply without the delimiter gives one line.
C13_SplitsUnconditionally ==
    [][lastOp'.op = "reply" /\ lastOp'.note = "ok" =>
           LET raw == RawReplyOf(lastOp'.text)
               lines == Last(messages').lines
           IN  /\ SplitTrimmedNonEmpty(raw, lines)
               /\ ~Includes(raw, Delimiter) => Len(lines) = 1]_vars

\* C13, amended: as above, but a reply without the delimiter gives one line
\* when it has a character other than the space, and no line when it has
\* none; a response without reply text counts as the reply "No response".
C13_SplitsBlankToNothing ==
    [][lastOp'.op = "reply" /\ lastOp'.note = "ok" =>
           LET raw == RawReplyOf(lastOp'.text)
               lines == Last(messages').lines
           IN  /\ Last(messages').sender = "bot"
               /\ SplitTrimmedNonEmpty(raw, lines)
               /\ ~Includes(raw, Delimiter) =>
                      Len(lines) = IF WhitespaceOnly(raw) THEN 0 ELSE 1]_vars

\* A reply with two delimited points arrived and its message carries the two.
C13_Witness ==
    /\ lastOp = OpOn("reply", "ok", <<"*", SP, "p", "*", SP, "q", SP>>)
    /\ Last(messages).lines = << <<"p">>, <<"q">> >>

\* ------------------------------------------- overlapping sends (C14..) ---
\* The messages of list that sends of this page produced.
OfSends(list) == {i \in DOMAIN list : list[i].req > 0}

\* In list no send has two user messages or two bot messages, and the user
\* messages are in the order of their sends.
EachOnceInSendOrder(list) ==
    \A i, j \in OfSends(list) :
        /\ (i # j /\ list[i].req = list[j].req) => list[i].sender # list[j].sender
        /\ (i < j /\ list[i].sender = "user" /\ list[j].sender = "user")
               => list[i].req < list[j].req

\* C14: a send, whether or not a request is outstanding, appends its user
\* message to the message list and leaves the rest of the list as it is; a
\* request that resolves, in whatever order, appends its bot message and
\* leaves the rest as it is; so the list holds no message of a send twice and
\* the user messages in send order.
C14_OverlappingSendsKeepAll ==
    [][/\ lastOp'.op = "send" /\ ~WhitespaceOnly(lastOp'.text) =>
              /\ sent' = sent + 1
              /\ messages' = Append(messages, UserMessage(lastOp'.text, sent'))
       /\ lastOp'.op = "reply" =>
              \E r \in requests :
                  /\ requests' = requests \ {r}
                  /\ Len(messages') = Len(messages) + 1
                  /\ SubSeq(messages', 1, Len(messages)) = messages
                  /\ Last(messages').sender = "bot"
                  /\ Last(messages').req = r.n
       /\ EachOnceInSendOrder(messages')]_vars

\* Two sends overlapped and the second was answered first: the list holds
\* both prompts in send order, then the replies in the order of arrival.
C14_Witness ==
    /\ lastOp.op = "reply"
    /\ requests = {}
    /\ Len(messages) = 4
    /\ messages[1].sender = "user" /\ messages[1].req = 1
    /\ messages[2].sender = "user" /\ messages[2].req = 2
    /\ messages[3].sender = "bot" /\ messages[3].req = 2
    /\ messages[4].sender = "bot" /\ messages[4].req = 1

\* C15: while a request is outstanding, isTyping is true.
C15_TypingWhileOutstanding ==
    requests # {} => isTyping

\* What holds instead: isTyping is true from a send to the next resolve of
\* any request, and false from a resolve to the next send.
TypingSinceLastSend ==
    /\ lastOp.op = "send" /\ lastOp.note = "sent" => isTyping
    /\ lastOp.op = "reply" => ~isTyping

\* ------------------------------------------------ reply and session (C16) ---
\* The sessions of store that hold the bot message of send n.
HoldersOfReply(store, n) ==
    {i \in DOMAIN store :
        \E j \in DOMAIN store[i].messages :
            store[i].messages[j].sender = "bot" /\ store[i].messages[j].req = n}

\* C16: when a request resolves, its bot message is stored in no session but
\* the one that was current when the send was made, and in that one when it
\* is still in the store.
C16_ReplyToSendingSession ==
    [][lastOp'.op = "reply" =>
           \E r \in requests :
               /\ requests' = requests \ {r}
               /\ \A i \in HoldersOfReply(storage', r.n) : storage'[i].id = r.from
               /\ r.from \in Ids(storage') => HoldersOfReply(storage', r.n) # {}]_vars

\* What holds instead: the bot message is stored in the sessions with the id
\* that is current when the request resolves, and in no other.
ReplyToCurrentSession ==
    [][lastOp'.op = "reply" =>
           \E r \in requests :
               /\ requests' = requests \ {r}
               /\ \A i \in DOMAIN storage' :
                      i \in HoldersOfReply(storage', r.n)
                          <=> storage'[i].id = currentSessionId]_vars

\* A reply is stored in one session and its prompt in another.
ReplyApartFromPrompt ==
    /\ lastOp.op = "reply"
    /\ \E i, j \in DOMAIN storage :
           /\ storage[i].id # storage[j].id
           /\ storage[i].messages # <<>> /\ Last(storage[i].messages).sender = "user"
           /\ storage[j].messages # <<>>
           /\ Last(storage[j].messages).sender = "bot"
           /\ Last(storage[j].messages).req = Last(storage[i].messages).req
           /\ Len(storage[j].messages) = 1

\* -------------------------------------------------- import at load (C17) ---
\* The sessions of a list, each with the number of times it occurs.
Members(list) == {<<list[i], Occurrences(list, list[i])>> : i \in DOMAIN list}

\* C17: the load of a well-formed file keeps every session the list holds
\* when the load event fires, as it is then, adds of the file's sessions those
\* whose id is not in that list, and nothing else, in the list and in the
\* store.
C17_ImportMergesAtLoadTime ==
    [][\A k \in DOMAIN readers :
           (/\ lastOp'.op = "onload"
            /\ readers' = WithoutIndex(readers, k)
            /\ readers[k].file.parses /\ readers[k].file.isArray)
           => LET items == readers[k].file.items
                  added == {i \in DOMAIN chatHistory' :
                               chatHistory'[i].id \notin Ids(chatHistory)}
              IN  /\ Members(chatHistory) \subseteq Members(chatHistory')
                  /\ \A i \in DOMAIN chatHistory' \ added :
                         \E j \in DOMAIN chatHistory : chatHistory'[i] = chatHistory[j]
                  /\ \A i \in added :
                         \E j \in DOMAIN items : chatHistory'[i] = items[j]
                  /\ storage' = chatHistory']_vars

\* What holds instead: the load merges the file into the list as it was when
\* the file was chosen.
ImportMergesAtChoiceTime ==
    [][\A k \in DOMAIN readers :
           (/\ lastOp'.op = "onload"
            /\ readers' = WithoutIndex(readers, k)
            /\ readers[k].file.parses /\ readers[k].file.isArray)
           => LET items == readers[k].file.items
                  chosen == readers[k].chatHistory
                  added == {i \in DOMAIN chatHistory' :
                               chatHistory'[i].id \notin Ids(chosen)}
              IN  /\ Members(chosen) \subseteq Members(chatHistory')
                  /\ \A i \in DOMAIN chatHistory' \ added :
                         \E j \in DOMAIN chosen : chatHistory'[i] = chosen[j]
                  /\ \A i \in added :
                         \E j \in DOMAIN items : chatHistory'[i] = items[j]
                  /\ storage' = chatHistory']_vars

\* ------------------------------------------------------ the order (C18) ---
PinnedFirst(list) ==
    \A i, j \in DOMAIN list : (i < j /\ list[j].pinned) => list[i].pinned

\* C18: in the session list every pinned session comes before every unpinned
\* one.
C18_PinnedAlwaysFirst ==
    PinnedFirst(chatHistory)

\* What holds instead: the list is in that order after a togglePin and after
\* the load of a well-formed file, the two operations that sort it.
PinnedFirstAfterSort ==
    (lastOp.op = "togglePin" \/ lastOp = Op("onload", "merged"))
        => PinnedFirst(chatHistory)

\* ------------------------------------------------- nothing lost (C19) ---
\* The messages that sends of this page produced, in a message list and in
\* the sessions of a store.
Accepted(list) == {list[i] : i \in OfSends(list)}

AcceptedIn(store) == UNION {Accepted(store[i].messages) : i \in DOMAIN store}

\* C19: no operation but a delete or a clear, which remove messages on the
\* user's demand, and a reload of the page makes a message of a send vanish:
\* a message that is on display or in the store before a create, a load of
\* a session, a send, a resolve, a togglePin, a rename or an import is in the
\* store afterwards, or still on display.
C19_NoAcceptedMessageLost ==
    [][lastOp'.op \in {"create", "load", "send", "reply", "togglePin", "rename",
                       "import", "onload", "tick"} =>
           (Accepted(messages) \union AcceptedIn(storage))
               \subseteq (AcceptedIn(storage') \union Accepted(messages'))]_vars

\* What holds instead: while a session is active and no file has been handed
\* to a FileReader, the messages on display are in the store.
DisplayedIsStoredWhileActive ==
    (currentSessionId # Null /\ picked = 0)
        => Accepted(messages) \subseteq AcceptedIn(storage)

\* ----------------------------------------------- active session (C20) ---
\* C20: the active session is none or the id of a session of the list.
C20_ActiveSessionInList ==
    currentSessionId = Null \/ currentSessionId \in Ids(chatHistory)

\* What holds instead: while no file has been handed to a FileReader, the
\* active session is none or in the list.
ActiveInListWhileNothingImported ==
    picked = 0 => C20_ActiveSessionInList
====
